---- MODULE Spec2Model ----
(***************************************************************************)
(* Model of the capstone-auth backend (backend/server.js and               *)
(* backend/middleware/auth.js): the User collection, the OU collection     *)
(* with its division and credential subdocuments, the JWT guard and the    *)
(* Express handlers of Tasks 1-3.                                          *)
(*                                                                         *)
(* ObjectIds are positive integers: users 1.., OUs 11.., divisions 21..,   *)
(* credentials 31...  The string form of an id (a URL parameter, a JSON    *)
(* body field, String(objectId)) is the record [str |-> id]; a string that *)
(* is no ObjectId is [str |-> -1] and a missing body field [str |-> 0].    *)
(* Time is counted in ticks of thirty minutes.                             *)
(***************************************************************************)
EXTENDS Integers, Sequences, FiniteSets, TLC

VARIABLES
    users,      \* the User collection: a sequence of user documents
    ous,        \* the OU collection: a sequence of OU documents
    tokens,     \* tokens[i]: the JWT the client session of user i holds
    now,        \* the clock
    inflight,   \* handlers suspended at an await (concurrent specification)
    last        \* the last request answered: operation, actor, URL id, status

vars == <<users, ous, tokens, now, inflight, last>>

----------------------------------------------------------------------------
(* Bounds of the model *)

MaxUsers == 2
MaxCreds == 1
MaxInflight == 2
MaxClock == 3
MaxCredsConcurrent == 2
MaxRoleInflight == 1

----------------------------------------------------------------------------
(* Values *)

Null == 0

Roles == {"normal", "management", "admin"}

ExpiresIn == 2

\* The addresses the clients register with: one for each user the model holds.
EmailPool == <<"a@x", "b@x", "c@x">>

Emails == {EmailPool[i] : i \in 1..MaxUsers}

Passwords == {"pw1"}

FieldVals == {"x", "y"}

Undefined == "undefined"

Str(id) == [str |-> id]

NotAnId == [str |-> -1]

Missing == [str |-> 0]

IsObjectIdString(s) == s.str > 0

CastObjectId(s) == s.str

NoDoc == [_id |-> Null]

----------------------------------------------------------------------------
(* The OU collection *)

SeedOUs ==
    << [_id |-> 11, name |-> "News Management",
        divisions |-> << [_id |-> 21, name |-> "IT Division", credentials |-> <<>>],
                         [_id |-> 22, name |-> "Finance Division", credentials |-> <<>>] >>] >>

OUIds == {11, 12}

DivisionIds == {21, 22, 23}

\* A lookup that takes any well-formed id for a division of the unit.
DivisionOf_Unchecked(ou, s) ==
    IF IsObjectIdString(s)
    THEN [_id |-> CastObjectId(s), name |-> "", credentials |-> <<>>]
    ELSE NoDoc

\* ou.divisions.id(x): the division subdocument with that _id, or none.
\* DocumentArray.id() swallows a cast failure and finds nothing.
DivisionOf(ou, s) ==
    IF IsObjectIdString(s) /\ \E k \in DOMAIN ou.divisions : ou.divisions[k]._id = CastObjectId(s)
    THEN ou.divisions[CHOOSE k \in DOMAIN ou.divisions : ou.divisions[k]._id = CastObjectId(s)]
    ELSE NoDoc

\* OU.findById(id)
FindOUById(O, id) ==
    IF \E j \in DOMAIN O : O[j]._id = id
    THEN O[CHOOSE j \in DOMAIN O : O[j]._id = id]
    ELSE NoDoc

\* OU.findOne({'divisions._id': id}): the first OU owning such a division.
FindOUByDivision(O, id) ==
    LET hits == {j \in DOMAIN O : \E k \in DOMAIN O[j].divisions : O[j].divisions[k]._id = id}
    IN IF hits = {} THEN NoDoc
       ELSE O[CHOOSE j \in hits : \A j2 \in hits : j <= j2]

\* All credentials of the store, as <<ou index, division index, credential index>>.
CredPlaces(O) ==
    UNION { UNION { { <<j, k, c>> : c \in DOMAIN O[j].divisions[k].credentials }
                    : k \in DOMAIN O[j].divisions }
            : j \in DOMAIN O }

\* A fresh ObjectId for a pushed credential subdocument.
NewCredId(O) == 31 + Cardinality(CredPlaces(O))

----------------------------------------------------------------------------
(* The User collection *)

\* User.findById(id)
FindUserById(U, id) ==
    IF \E i \in DOMAIN U : U[i]._id = id
    THEN U[CHOOSE i \in DOMAIN U : U[i]._id = id]
    ELSE NoDoc

\* User.findOne({ email })
FindUserByEmail(U, email) ==
    IF \E i \in DOMAIN U : U[i].email = email
    THEN U[CHOOSE i \in DOMAIN U : U[i].email = email /\ \A i2 \in DOMAIN U : U[i2].email = email => i <= i2]
    ELSE NoDoc

\* A constructor that puts every new user into the seeded unit.
NewUser_InSeededUnit(id, name, email, passwordHash, role) ==
    [_id |-> id, name |-> name, email |-> email, passwordHash |-> passwordHash,
     role |-> role, ou |-> 11, division |-> 21]

\* new User({...}): the schema defaults fill ou and division with null.
NewUser(id, name, email, passwordHash, role) ==
    [_id |-> id, name |-> name, email |-> email, passwordHash |-> passwordHash,
     role |-> role, ou |-> Null, division |-> Null]

UserPaths == {"name", "email", "passwordHash", "role", "ou", "division"}

\* doc.save() of a loaded document: Mongoose sends a $set of the paths whose
\* value differs from the value loaded, to the stored document with that _id.
SaveUser(U, loaded, doc) ==
    [i \in DOMAIN U |->
        IF U[i]._id = doc._id
        THEN [f \in DOMAIN U[i] |->
                IF f \in UserPaths /\ doc[f] # loaded[f] THEN doc[f] ELSE U[i][f]]
        ELSE U[i]]

\* bcrypt.hash / bcrypt.compare
Hash(password) == <<"bcrypt", password>>

Compare(password, passwordHash) == passwordHash = Hash(password)

\* A projection that passes the stored hash along.
publicUser_WithHash(u) ==
    [id |-> u._id, name |-> u.name, email |-> u.email, role |-> u.role,
     ou |-> u.ou, division |-> u.division, passwordHash |-> u.passwordHash]

\* publicUser(u)
publicUser(u) ==
    [id |-> u._id, name |-> u.name, email |-> u.email, role |-> u.role,
     ou |-> u.ou, division |-> u.division]

----------------------------------------------------------------------------
(* Session tokens *)

NoToken == [sig |-> "none"]

\* jwt.sign({ id, email, role }, JWT_SECRET, { expiresIn: '1h' })
jwtSign(u, t) ==
    [id |-> u._id, email |-> u.email, role |-> u.role,
     iat |-> t, exp |-> t + ExpiresIn, sig |-> "ok"]

\* A token that is no JWT at all.
Malformed == [sig |-> "malformed"]

\* A token whose payload was altered, or that was signed with another key.
Tamper(tok, role) == [tok EXCEPT !.role = role, !.sig = "bad"]

\* A verification that still accepts a token at its expiry time.
jwtVerifies_AtExpiry(tok, t) == tok.sig = "ok" /\ t <= tok.exp

\* jwt.verify(token, JWT_SECRET): throws unless the token parses, the
\* signature matches and the clock is before exp.
jwtVerifies(tok, t) == tok.sig = "ok" /\ t < tok.exp

----------------------------------------------------------------------------
(* Responses.  A handler maps the collections and a request to the response *)
(* and the collections it leaves.                                           *)

Resp(status, body, U, O) == [status |-> status, body |-> body, users |-> U, ous |-> O]

Err(status, msg, U, O) == Resp(status, [error |-> msg], U, O)

\* The catch block of every handler.
ServerError(U, O) == Err(500, "Server error", U, O)

----------------------------------------------------------------------------
(* middleware/auth.js *)

\* A request header is the list of the parts authHeader.split(' ') yields;
\* an absent (or empty) Authorization header is the empty list.
NoHeader == << >>

Bearer(tok) == <<"Bearer", tok>>

authMiddleware(hdr, t) ==
    IF hdr = NoHeader
    THEN [next |-> FALSE, status |-> 401, error |-> "No Authorization header provided"]
    ELSE IF hdr[1] # "Bearer" \/ Len(hdr) < 2
    THEN [next |-> FALSE, status |-> 401,
          error |-> "Malformed Authorization header. Use: Bearer <token>"]
    ELSE IF jwtVerifies(hdr[2], t)
    THEN [next |-> TRUE, user |-> hdr[2]]
    ELSE [next |-> FALSE, status |-> 403, error |-> "Invalid or expired token"]

----------------------------------------------------------------------------
(* Helpers of server.js *)

\* A guard that reads the role out of the token instead of the database.
getCurrentUser_FromToken(U, reqUser) ==
    IF "id" \notin DOMAIN reqUser \/ FindUserById(U, reqUser.id) = NoDoc THEN NoDoc
    ELSE [FindUserById(U, reqUser.id) EXCEPT !.role = reqUser.role]

getCurrentUser(U, reqUser) ==
    IF "id" \notin DOMAIN reqUser THEN NoDoc ELSE FindUserById(U, reqUser.id)

\* A role check that lets everybody through.
isNormal_Never(current) == FALSE

\* A role check that stops only the normal users without a division.
isNormal_Unassigned(current) == current.role = "normal" /\ current.division = Null

\* current.role === 'normal': the check of the management-or-admin handlers.
isNormal(current) == current.role = "normal"

\* A role check that lets management through.
isNotAdmin_OnlyNormal(current) == current.role = "normal"

\* current.role !== 'admin': the check of the change-role handler.
isNotAdmin(current) == current.role # "admin"

\* A division check that lets a normal user into every division once the
\* user has one.
ensureDivisionAccess_AnyDivision(U, reqUser, id) ==
    LET current == getCurrentUser(U, reqUser)
    IN  IF current = NoDoc
        THEN [ok |-> FALSE, status |-> 401, error |-> "Unknown user"]
        ELSE IF isNormal(current) /\ current.division = Null
        THEN [ok |-> FALSE, status |-> 403, error |-> "Not allowed for this division"]
        ELSE [ok |-> TRUE, user |-> current]

\* A division check that holds every role to the user's own division.
ensureDivisionAccess_OwnOnly(U, reqUser, id) ==
    LET current == getCurrentUser(U, reqUser)
    IN  IF current = NoDoc
        THEN [ok |-> FALSE, status |-> 401, error |-> "Unknown user"]
        ELSE IF current.division = Null \/ Str(current.division) # id
        THEN [ok |-> FALSE, status |-> 403, error |-> "Not allowed for this division"]
        ELSE [ok |-> TRUE, user |-> current]

ensureDivisionAccess(U, reqUser, id) ==
    LET current == getCurrentUser(U, reqUser)
    IN  IF current = NoDoc
        THEN [ok |-> FALSE, status |-> 401, error |-> "Unknown user"]
        ELSE IF isNormal(current)
                /\ (current.division = Null \/ Str(current.division) # id)
        THEN [ok |-> FALSE, status |-> 403, error |-> "Not allowed for this division"]
        ELSE [ok |-> TRUE, user |-> current]

\* !x for a string of a JSON body: undefined and the empty string are falsy.
Falsy(x) == x = Undefined \/ x = ""

\* A push that takes the first division of the unit for the one addressed.
PushCredential_FirstDivision(O, id, cred) ==
    LET ou == FindOUByDivision(O, id)
    IN  [j \in DOMAIN O |->
            IF O[j]._id = ou._id
            THEN [O[j] EXCEPT !.divisions[1].credentials = Append(@, cred)]
            ELSE O[j]]

\* division.credentials.push(cred); ou.save(), on the OU that owns division id.
PushCredential(O, id, cred) ==
    LET ou == FindOUByDivision(O, id)
    IN  [j \in DOMAIN O |->
            IF O[j]._id = ou._id
            THEN [O[j] EXCEPT !.divisions =
                    [k \in DOMAIN O[j].divisions |->
                        IF O[j].divisions[k]._id = id
                        THEN [O[j].divisions[k] EXCEPT !.credentials = Append(@, cred)]
                        ELSE O[j].divisions[k]]]
            ELSE O[j]]

\* division.credentials.id(credId): DocumentArray.id() finds nothing on a cast failure.
CredentialOf(division, credId) ==
    IF IsObjectIdString(credId)
       /\ \E c \in DOMAIN division.credentials : division.credentials[c]._id = CastObjectId(credId)
    THEN division.credentials[CHOOSE c \in DOMAIN division.credentials :
                                    division.credentials[c]._id = CastObjectId(credId)]
    ELSE NoDoc

\* An update that stores the body as it came: a field the body leaves out
\* becomes undefined.
PatchCredential_Replace(cred, system, username, password) ==
    [cred EXCEPT !.system = system, !.username = username, !.password = password]

\* The three conditional assignments of the update handler.
PatchCredential(cred, system, username, password) ==
    [cred EXCEPT !.system   = IF system # Undefined THEN system ELSE @,
                 !.username = IF username # Undefined THEN username ELSE @,
                 !.password = IF password # Undefined THEN password ELSE @]

\* ou.save() after a credential subdocument of division id was changed.
ReplaceCredential(O, id, cred) ==
    LET ou == FindOUByDivision(O, id)
    IN  [j \in DOMAIN O |->
            IF O[j]._id = ou._id
            THEN [O[j] EXCEPT !.divisions =
                    [k \in DOMAIN O[j].divisions |->
                        IF O[j].divisions[k]._id = id
                        THEN [O[j].divisions[k] EXCEPT !.credentials =
                                [c \in DOMAIN @ |-> IF @[c]._id = cred._id THEN cred ELSE @[c]]]
                        ELSE O[j].divisions[k]]]
            ELSE O[j]]

----------------------------------------------------------------------------
(* Task 2: the credential repository handlers (after the guard let the     *)
(* request through; reqUser is the decoded token)                          *)

getCredentials(U, O, reqUser, id) ==
    LET access == ensureDivisionAccess(U, reqUser, id)
    IN  IF ~access.ok THEN Err(access.status, access.error, U, O)
        ELSE IF ~IsObjectIdString(id) THEN ServerError(U, O)
        ELSE LET ou == FindOUByDivision(O, CastObjectId(id))
             IN  IF ou = NoDoc THEN Err(404, "Division not found", U, O)
                 ELSE LET division == DivisionOf(ou, id)
                      IN  Resp(200, [division |-> [id |-> division._id, name |-> division.name],
                                     credentials |-> division.credentials], U, O)

\* An add handler that pushes the credential before it looks at the fields.
postCredential_PushFirst(U, O, reqUser, id, system, username, password) ==
    LET access == ensureDivisionAccess(U, reqUser, id)
    IN  IF ~access.ok THEN Err(access.status, access.error, U, O)
        ELSE IF ~IsObjectIdString(id) THEN ServerError(U, O)
        ELSE LET ou == FindOUByDivision(O, CastObjectId(id))
             IN  IF ou = NoDoc THEN Err(404, "Division not found", U, O)
                 ELSE LET cred == [_id |-> NewCredId(O), system |-> system,
                                   username |-> username, password |-> password]
                          O2 == PushCredential(O, CastObjectId(id), cred)
                      IN  IF Falsy(system) \/ Falsy(username) \/ Falsy(password)
                          THEN Err(400, "system, username, password are required", U, O2)
                          ELSE Resp(201, [message |-> "Credential added",
                                          credentials |-> DivisionOf(FindOUByDivision(O2, CastObjectId(id)), id).credentials],
                                    U, O2)

postCredential(U, O, reqUser, id, system, username, password) ==
    LET access == ensureDivisionAccess(U, reqUser, id)
    IN  IF ~access.ok THEN Err(access.status, access.error, U, O)
        ELSE IF Falsy(system) \/ Falsy(username) \/ Falsy(password)
        THEN Err(400, "system, username, password are required", U, O)
        ELSE IF ~IsObjectIdString(id) THEN ServerError(U, O)
        ELSE LET ou == FindOUByDivision(O, CastObjectId(id))
             IN  IF ou = NoDoc THEN Err(404, "Division not found", U, O)
                 ELSE LET cred == [_id |-> NewCredId(O), system |-> system,
                                   username |-> username, password |-> password]
                          O2 == PushCredential(O, CastObjectId(id), cred)
                      IN  Resp(201, [message |-> "Credential added",
                                     credentials |-> DivisionOf(FindOUByDivision(O2, CastObjectId(id)), id).credentials],
                               U, O2)

putCredential(U, O, reqUser, id, credId, system, username, password) ==
    LET current == getCurrentUser(U, reqUser)
    IN  IF current = NoDoc THEN Err(401, "Unknown user", U, O)
        ELSE IF isNormal(current)
        THEN Err(403, "Permission denied: management or admin required", U, O)
        ELSE IF ~IsObjectIdString(id) THEN ServerError(U, O)
        ELSE LET ou == FindOUByDivision(O, CastObjectId(id))
             IN  IF ou = NoDoc THEN Err(404, "Division not found", U, O)
                 ELSE LET cred == CredentialOf(DivisionOf(ou, id), credId)
                      IN  IF cred = NoDoc THEN Err(404, "Credential not found", U, O)
                          ELSE LET cred2 == PatchCredential(cred, system, username, password)
                               IN  Resp(200, [message |-> "Credential updated", credential |-> cred2],
                                        U, ReplaceCredential(O, CastObjectId(id), cred2))

----------------------------------------------------------------------------
(* Task 3: list users, assign, unassign, change role *)

\* The projection of GET /api/users.
UserItem(u) ==
    [id |-> Str(u._id), name |-> u.name, email |-> u.email, role |-> u.role,
     ou |-> IF u.ou # Null THEN Str(u.ou) ELSE Str(Null),
     division |-> IF u.division # Null THEN Str(u.division) ELSE Str(Null)]

getUsers(U, O, reqUser) ==
    LET current == getCurrentUser(U, reqUser)
    IN  IF current = NoDoc THEN Err(401, "Unknown user", U, O)
        ELSE IF isNormal(current) THEN Err(403, "Management or admin required", U, O)
        ELSE Resp(200, [items |-> [i \in DOMAIN U |-> UserItem(U[i])]], U, O)

\* An assign that sets the unit and leaves the division as it was.
AssignFields_UnitOnly(user, ou, division) == [user EXCEPT !.ou = ou._id]

\* The assignments of the assign handler to the loaded user document.
AssignFields(user, ou, division) == [user EXCEPT !.ou = ou._id, !.division = division._id]

\* The assign handler after its role check: the body, the unit, the
\* division, the target, the two assignments and the save.
assignChecked(U, O, id, ouId, divisionId) ==
    IF ouId = Missing \/ divisionId = Missing
    THEN Err(400, "ouId and divisionId required", U, O)
    ELSE IF ~IsObjectIdString(ouId) THEN ServerError(U, O)
    ELSE LET ou == FindOUById(O, CastObjectId(ouId))
         IN  IF ou = NoDoc THEN Err(404, "OU not found", U, O)
             ELSE LET division == DivisionOf(ou, divisionId)
                  IN  IF division = NoDoc
                      THEN Err(400, "divisionId does not belong to the specified OU", U, O)
                      ELSE IF ~IsObjectIdString(id) THEN ServerError(U, O)
                      ELSE LET user == FindUserById(U, CastObjectId(id))
                           IN  IF user = NoDoc THEN Err(404, "User not found", U, O)
                               ELSE LET user2 == AssignFields(user, ou, division)
                                    IN  Resp(200, [message |-> "User assigned",
                                                   user |-> publicUser(user2)],
                                             SaveUser(U, user, user2), O)

postAssign(U, O, reqUser, id, ouId, divisionId) ==
    LET current == getCurrentUser(U, reqUser)
    IN  IF current = NoDoc THEN Err(401, "Unknown user", U, O)
        ELSE IF isNormal(current) THEN Err(403, "Management or admin required", U, O)
        ELSE assignChecked(U, O, id, ouId, divisionId)

\* An unassign that clears the division and forgets the unit.
UnassignFields_DivisionOnly(user) == [user EXCEPT !.division = Null]

\* The assignments of the unassign handler to the loaded user document.
UnassignFields(user) == [user EXCEPT !.ou = Null, !.division = Null]

deleteAssign(U, O, reqUser, id) ==
    LET current == getCurrentUser(U, reqUser)
    IN  IF current = NoDoc THEN Err(401, "Unknown user", U, O)
        ELSE IF isNormal(current) THEN Err(403, "Management or admin required", U, O)
        ELSE IF ~IsObjectIdString(id) THEN ServerError(U, O)
        ELSE LET user == FindUserById(U, CastObjectId(id))
             IN  IF user = NoDoc THEN Err(404, "User not found", U, O)
                 ELSE LET user2 == UnassignFields(user)
                      IN  Resp(200, [message |-> "User unassigned", user |-> publicUser(user2)],
                               SaveUser(U, user, user2), O)

\* A flag raised whenever the changed user ends up with the acting user's role.
requireReLogin_SameRole(user, current) == user.role = current.role

\* String(user._id) === String(current._id)
requireReLogin(user, current) == Str(user._id) = Str(current._id)

\* A check of the requested role that lets every value through.
allowedRole_Any(role) == TRUE

\* allowed.includes(role), allowed = ['normal', 'management', 'admin']
allowedRole(role) == role \in Roles

\* The change-role handler after its checks of the acting user and of the
\* requested role: the target, the assignment and the save.
roleChecked(U, O, current, id, role) ==
    IF ~IsObjectIdString(id) THEN ServerError(U, O)
    ELSE LET user == FindUserById(U, CastObjectId(id))
         IN  IF user = NoDoc THEN Err(404, "User not found", U, O)
             ELSE LET user2 == [user EXCEPT !.role = role]
                  IN  Resp(200, [message |-> "Role updated", user |-> publicUser(user2),
                                 requireReLogin |-> requireReLogin(user2, current)],
                           SaveUser(U, user, user2), O)

putRole(U, O, reqUser, id, role) ==
    LET current == getCurrentUser(U, reqUser)
    IN  IF current = NoDoc THEN Err(401, "Unknown user", U, O)
        ELSE IF isNotAdmin(current) THEN Err(403, "Admin only", U, O)
        ELSE IF ~allowedRole(role)
        THEN Err(400, "Invalid role (normal | management | admin)", U, O)
        ELSE roleChecked(U, O, current, id, role)

----------------------------------------------------------------------------
(* Task 1: register and login *)

postRegister(U, O, t, name, email, password) ==
    IF Falsy(name) \/ Falsy(email) \/ Falsy(password)
    THEN Err(400, "All fields required", U, O)
    ELSE IF FindUserByEmail(U, email) # NoDoc
    THEN Err(409, "Email already registered", U, O)
    ELSE LET user == NewUser(Len(U) + 1, name, email, Hash(password), "normal")
         IN  Resp(201, [message |-> "Registered", token |-> jwtSign(user, t),
                        user |-> publicUser(user)],
                  Append(U, user), O)

postLogin(U, O, t, email, password) ==
    LET user == FindUserByEmail(U, email)
    IN  IF user = NoDoc THEN Err(401, "Invalid email or password", U, O)
        ELSE IF password = Undefined THEN ServerError(U, O)
        ELSE IF ~Compare(password, user.passwordHash)
        THEN Err(401, "Invalid email or password", U, O)
        ELSE Resp(200, [message |-> "Login successful", token |-> jwtSign(user, t),
                        user |-> publicUser(user)],
                  U, O)

----------------------------------------------------------------------------
(* The routes: the guard, then the handler *)

Guarded(U, O, a, r) == IF a.next THEN r ELSE Err(a.status, a.error, U, O)

\* What the guard leaves in req.user; read only when the guard called next().
ReqUser(a) == IF a.next THEN a.user ELSE NoToken

\* const { name, email, password } = req.body: the handler reads these three
\* fields of the body and no other.
POST_register(U, O, t, body) == postRegister(U, O, t, body.name, body.email, body.password)

GET_structure(U, O, t, hdr) ==
    LET a == authMiddleware(hdr, t)
    IN  Guarded(U, O, a,
            Resp(200, [items |-> [j \in DOMAIN O |->
                        [ouId |-> Str(O[j]._id), ouName |-> O[j].name,
                         divisions |-> [k \in DOMAIN O[j].divisions |->
                            [divisionId |-> Str(O[j].divisions[k]._id),
                             divisionName |-> O[j].divisions[k].name]]]]],
                 U, O))

GET_credentials(U, O, t, hdr, id) ==
    LET a == authMiddleware(hdr, t)
    IN  Guarded(U, O, a, getCredentials(U, O, ReqUser(a), id))

POST_credentials(U, O, t, hdr, id, system, username, password) ==
    LET a == authMiddleware(hdr, t)
    IN  Guarded(U, O, a, postCredential(U, O, ReqUser(a), id, system, username, password))

PUT_credentials(U, O, t, hdr, id, credId, system, username, password) ==
    LET a == authMiddleware(hdr, t)
    IN  Guarded(U, O, a, putCredential(U, O, ReqUser(a), id, credId, system, username, password))

GET_users(U, O, t, hdr) ==
    LET a == authMiddleware(hdr, t)
    IN  Guarded(U, O, a, getUsers(U, O, ReqUser(a)))

POST_assign(U, O, t, hdr, id, ouId, divisionId) ==
    LET a == authMiddleware(hdr, t)
    IN  Guarded(U, O, a, postAssign(U, O, ReqUser(a), id, ouId, divisionId))

DELETE_assign(U, O, t, hdr, id) ==
    LET a == authMiddleware(hdr, t)
    IN  Guarded(U, O, a, deleteAssign(U, O, ReqUser(a), id))

PUT_role(U, O, t, hdr, id, role) ==
    LET a == authMiddleware(hdr, t)
    IN  Guarded(U, O, a, putRole(U, O, ReqUser(a), id, role))

----------------------------------------------------------------------------
(* The requests a client can send *)

Names == {"n"}

\* The headers of the client sessions: "Bearer <the token the session holds>".
SessionHeaders == {Bearer(tokens[i]) : i \in {i \in DOMAIN tokens : tokens[i] # NoToken}}

\* Other Authorization headers: none, no token, a wrong scheme, no JWT, and
\* a held token with its role altered (its signature then fails).
OtherHeaders ==
    {NoHeader, <<"Bearer">>, <<"Basic", Malformed>>, Bearer(Malformed)}
    \cup {Bearer(Tamper(tokens[i], "admin")) : i \in {i \in DOMAIN tokens : tokens[i] # NoToken}}

Headers == SessionHeaders \cup OtherHeaders

UserIdParams == {Str(i) : i \in 1..(MaxUsers + 1)} \cup {NotAnId}

DivisionIdParams == {Str(d) : d \in DivisionIds} \cup {NotAnId}

OUIdParams == {Str(o) : o \in OUIds} \cup {NotAnId, Missing}

CredIdParams == {Str(31 + n) : n \in 0..MaxCreds} \cup {NotAnId}

FieldInputs == FieldVals \cup {Undefined, ""}

RoleInputs == Roles \cup {"root", Undefined}

\* JSON bodies of the register request: the three fields the form sends and
\* fields a client may add (a role, a unit, a division).
AllRegisterBodies ==
    {[name |-> n, email |-> e, password |-> p, role |-> r, ou |-> a[1], division |-> a[2]] :
        n \in Names \cup {Undefined}, e \in {EmailPool[k] : k \in DOMAIN EmailPool} \cup {Undefined},
        p \in Passwords \cup {Undefined}, r \in RoleInputs, a \in {<<Str(Null), Str(Null)>>, <<Str(11), Str(21)>>}}

\* JSON bodies of the credential requests.
CredBody(system, username, password) ==
    [system |-> system, username |-> username, password |-> password]

AllCredBodies ==
    {CredBody(s, u, p) : s \in FieldInputs, u \in FieldInputs, p \in FieldInputs}

\* The bodies the clients of the model send: a fixed system and username
\* with either password, and bodies that leave a field out or empty.
SentCredBodies ==
    {CredBody("x", "x", p) : p \in FieldVals}
    \cup {CredBody(Undefined, "x", "x"), CredBody("x", "", "x"), CredBody("x", "x", Undefined),
          CredBody(Undefined, Undefined, "y")}

\* JSON bodies of the assign request.
AssignBody(ouId, divisionId) == [ouId |-> ouId, divisionId |-> divisionId]

AllAssignBodies ==
    {AssignBody(o, d) : o \in OUIdParams, d \in DivisionIdParams \cup {Missing}}

\* The bodies the clients of the model send: every division with the seeded
\* unit, and one body for each way a body can be wrong.
SentAssignBodies ==
    {AssignBody(Str(11), Str(d)) : d \in DivisionIds}
    \cup {AssignBody(Str(12), Str(21)), AssignBody(NotAnId, Str(21)), AssignBody(Str(11), NotAnId),
          AssignBody(Missing, Str(21)), AssignBody(Str(11), Missing)}

\* The bodies that name the seeded unit and one of its divisions.
ValidAssignBodies ==
    {AssignBody(Str(SeedOUs[1]._id), Str(SeedOUs[1].divisions[k]._id)) : k \in DOMAIN SeedOUs[1].divisions}

\* A request that carries no session token is sent with one choice of the
\* other inputs: the guard answers it before any of them is read.
InputsFor(hdr, S) == IF hdr \in SessionHeaders THEN S ELSE {CHOOSE x \in S : TRUE}

\* The user a header speaks for: the id in a token the server signed, 0 when
\* the header carries no such token.
Actor(hdr) == IF Len(hdr) >= 2 /\ hdr[1] = "Bearer" /\ hdr[2].sig = "ok" THEN hdr[2].id ELSE 0

\* The record of an answered request: the operation, the acting user, the
\* id in the URL (a user or a division) and the status of the response.
Answered(op, hdr, arg, r) == [op |-> op, uid |-> Actor(hdr), arg |-> arg, status |-> r.status]

----------------------------------------------------------------------------
(* The state machine: one action per request, the whole handler at once *)

\* A database is provisioned with a management or admin user: no request
\* creates the first one.
StaffUser(role) == [NewUser(1, "n", "a@x", Hash("pw1"), "normal") EXCEPT !.role = role]

AdminUser == StaffUser("admin")

\* A registered user, unassigned or assigned by a management or admin user.
MemberUser(ou, division) ==
    [NewUser(2, "n", "b@x", Hash("pw1"), "normal") EXCEPT !.ou = ou, !.division = division]

Assignments == {<<Null, Null>>, <<11, 21>>, <<11, 22>>}

NoRequest == [op |-> "none", uid |-> 0, arg |-> Missing, status |-> 0]

Init ==
    /\ \E role \in {"management", "admin"} : users = <<StaffUser(role)>>
    /\ ous = SeedOUs
    /\ tokens = [i \in 1..MaxUsers |-> NoToken]
    /\ now = 0
    /\ inflight = {}
    /\ last = NoRequest

Commit(op, hdr, arg, r) ==
    /\ users' = r.users
    /\ ous' = r.ous
    /\ last' = Answered(op, hdr, arg, r)

\* The client keeps the token of a successful register or login (App.js).
Keep(r) ==
    IF r.status \in {200, 201}
    THEN [tokens EXCEPT ![r.body.user.id] = r.body.token]
    ELSE tokens

Register ==
    \E name \in Names \cup {Undefined}, email \in Emails \cup {Undefined},
       password \in Passwords \cup {Undefined} :
        LET r == postRegister(users, ous, now, name, email, password)
        IN  /\ Len(r.users) <= MaxUsers
            /\ Commit("register", NoHeader, Missing, r)
            /\ tokens' = Keep(r)
            /\ UNCHANGED <<now, inflight>>

Login ==
    \E email \in Emails \cup {Undefined}, password \in Passwords \cup {"wrong", Undefined} :
        LET r == postLogin(users, ous, now, email, password)
        IN  /\ Commit("login", NoHeader, Missing, r)
            /\ tokens' = Keep(r)
            /\ UNCHANGED <<now, inflight>>

ListStructure ==
    \E hdr \in Headers :
        /\ Commit("structure", hdr, Missing, GET_structure(users, ous, now, hdr))
        /\ UNCHANGED <<tokens, now, inflight>>

ReadCredentials ==
    \E hdr \in Headers : \E id \in InputsFor(hdr, DivisionIdParams) :
        /\ Commit("read", hdr, id, GET_credentials(users, ous, now, hdr, id))
        /\ UNCHANGED <<tokens, now, inflight>>

AddCredential ==
    \E hdr \in Headers : \E id \in InputsFor(hdr, DivisionIdParams), b \in InputsFor(hdr, SentCredBodies) :
        LET r == POST_credentials(users, ous, now, hdr, id, b.system, b.username, b.password)
        IN  /\ Cardinality(CredPlaces(r.ous)) <= MaxCreds
            /\ Commit("add", hdr, id, r)
            /\ UNCHANGED <<tokens, now, inflight>>

UpdateCredential ==
    \E hdr \in Headers : \E id \in InputsFor(hdr, DivisionIdParams), credId \in InputsFor(hdr, CredIdParams),
                            b \in InputsFor(hdr, SentCredBodies) :
        /\ Commit("update", hdr, id,
                  PUT_credentials(users, ous, now, hdr, id, credId, b.system, b.username, b.password))
        /\ UNCHANGED <<tokens, now, inflight>>

ListUsers ==
    \E hdr \in Headers :
        /\ Commit("users", hdr, Missing, GET_users(users, ous, now, hdr))
        /\ UNCHANGED <<tokens, now, inflight>>

Assign ==
    \E hdr \in Headers : \E id \in InputsFor(hdr, UserIdParams), b \in InputsFor(hdr, SentAssignBodies) :
        /\ Commit("assign", hdr, id, POST_assign(users, ous, now, hdr, id, b.ouId, b.divisionId))
        /\ UNCHANGED <<tokens, now, inflight>>

Unassign ==
    \E hdr \in Headers : \E id \in InputsFor(hdr, UserIdParams) :
        /\ Commit("unassign", hdr, id, DELETE_assign(users, ous, now, hdr, id))
        /\ UNCHANGED <<tokens, now, inflight>>

ChangeRole ==
    \E hdr \in Headers : \E id \in InputsFor(hdr, UserIdParams), role \in InputsFor(hdr, RoleInputs) :
        /\ Commit("role", hdr, id, PUT_role(users, ous, now, hdr, id, role))
        /\ UNCHANGED <<tokens, now, inflight>>

\* Accounts, sessions and assignments, and what an assignment lets a user read.
Next ==
    \/ Register
    \/ Login
    \/ ReadCredentials
    \/ ListUsers
    \/ Assign
    \/ Unassign

Spec == Init /\ [][Next]_vars

----------------------------------------------------------------------------
(* The credential side of the API, on databases Spec reaches: a management *)
(* or admin user, and a normal user who is unassigned or assigned to one   *)
(* of the seeded divisions.                                                 *)

InitCredentials ==
    /\ \E role \in {"management", "admin"}, a \in Assignments :
            users = <<StaffUser(role), MemberUser(a[1], a[2])>>
    /\ ous = SeedOUs
    /\ tokens = [i \in 1..MaxUsers |-> NoToken]
    /\ now = 0
    /\ inflight = {}
    /\ last = NoRequest

NextCredentials ==
    \/ Login
    \/ ListStructure
    \/ ReadCredentials
    \/ AddCredential
    \/ UpdateCredential

SpecCredentials == InitCredentials /\ [][NextCredentials]_vars

\* The credentials as a management or admin user sees them, who has no
\* division or was assigned to one.
InitStaff ==
    /\ \E role \in {"management", "admin"}, a \in Assignments :
            users = <<[StaffUser(role) EXCEPT !.ou = a[1], !.division = a[2]]>>
    /\ ous = SeedOUs
    /\ tokens = [i \in 1..MaxUsers |-> NoToken]
    /\ now = 0
    /\ inflight = {}
    /\ last = NoRequest

NextStaff ==
    \/ Login
    \/ ReadCredentials
    \/ AddCredential

SpecStaff == InitStaff /\ [][NextStaff]_vars

----------------------------------------------------------------------------
(* Roles and sessions: role changes while the sessions keep their tokens. *)

InitRoles ==
    /\ \E a \in Assignments : users = <<AdminUser, MemberUser(a[1], a[2])>>
    /\ ous = SeedOUs
    /\ tokens = [i \in 1..MaxUsers |-> NoToken]
    /\ now = 0
    /\ inflight = {}
    /\ last = NoRequest

NextRoles ==
    \/ Login
    \/ ListUsers
    \/ ChangeRole

SpecRoles == InitRoles /\ [][NextRoles]_vars

----------------------------------------------------------------------------
(* Concurrent requests.  An Express handler runs until an await and other  *)
(* requests run in between.  Assign and unassign load the user document    *)
(* (User.findById), set fields on the loaded copy, and await user.save():  *)
(* each is a load step and a save step.  The awaits before the load read   *)
(* the acting user's role and the OU collection, which no step of this     *)
(* specification writes, so they are part of the load step.                *)

\* The handler is suspended at `await user.save()` with the copy it loaded
\* and the copy it changed.
Suspend(op, hdr, arg, loaded, doc) ==
    /\ Cardinality(inflight) < MaxInflight
    /\ inflight' = inflight \cup
            {[op |-> op, uid |-> Actor(hdr), arg |-> arg, loaded |-> loaded, doc |-> doc]}
    /\ UNCHANGED <<users, ous, tokens, now, last>>

\* POST /api/users/:id/assign up to `await user.save()`: a request that is
\* refused is answered at once.
AssignLoad ==
    \E hdr \in SessionHeaders : \E id \in {Str(i) : i \in DOMAIN users}, b \in ValidAssignBodies :
        LET r == POST_assign(users, ous, now, hdr, id, b.ouId, b.divisionId)
        IN  IF r.status = 200
            THEN LET user == FindUserById(users, CastObjectId(id))
                     ou == FindOUById(ous, CastObjectId(b.ouId))
                 IN  Suspend("assign", hdr, id, user, AssignFields(user, ou, DivisionOf(ou, b.divisionId)))
            ELSE /\ Commit("assign", hdr, id, r)
                 /\ UNCHANGED <<tokens, now, inflight>>

\* DELETE /api/users/:id/assign up to `await user.save()`.
UnassignLoad ==
    \E hdr \in SessionHeaders : \E id \in {Str(i) : i \in DOMAIN users} :
        LET r == DELETE_assign(users, ous, now, hdr, id)
        IN  IF r.status = 200
            THEN LET user == FindUserById(users, CastObjectId(id))
                 IN  Suspend("unassign", hdr, id, user, UnassignFields(user))
            ELSE /\ Commit("unassign", hdr, id, r)
                 /\ UNCHANGED <<tokens, now, inflight>>

\* user.save() completes and the handler answers 200.
SaveStep(op) ==
    \E h \in inflight :
        /\ h.op = op
        /\ users' = SaveUser(users, h.loaded, h.doc)
        /\ inflight' = inflight \ {h}
        /\ last' = [op |-> h.op, uid |-> h.uid, arg |-> h.arg, status |-> 200]
        /\ UNCHANGED <<ous, tokens, now>>

AssignSave == SaveStep("assign")

UnassignSave == SaveStep("unassign")

InitConcurrent ==
    /\ \E role \in {"management", "admin"} : users = <<StaffUser(role), MemberUser(Null, Null)>>
    /\ ous = SeedOUs
    /\ tokens = [i \in 1..MaxUsers |-> NoToken]
    /\ now = 0
    /\ inflight = {}
    /\ last = NoRequest

NextConcurrent ==
    \/ Login
    \/ AssignLoad
    \/ AssignSave
    \/ UnassignLoad
    \/ UnassignSave

SpecConcurrent == InitConcurrent /\ [][NextConcurrent]_vars

----------------------------------------------------------------------------
(* Concurrent registrations.  The handler awaits User.findOne({ email }),  *)
(* then bcrypt.hash, then user.save(): the check step runs up to the       *)
(* save, and the save step inserts the document.  The schema declares      *)
(* email unique, so the collection has a unique index on it and an insert  *)
(* of an email that is by then stored fails with a duplicate-key error,    *)
(* which the handler's catch block answers.                                *)

FreeSlots == (1..MaxInflight) \ {h.slot : h \in inflight}

\* POST /api/register up to `await user.save()`: a request that is refused
\* is answered at once.
RegisterCheck ==
    \E name \in Names \cup {Undefined}, email \in Emails, password \in Passwords :
        LET r == postRegister(users, ous, now, name, email, password)
        IN  IF r.status = 201
            THEN /\ FreeSlots # {}
                 /\ inflight' = inflight \cup
                        {[slot |-> CHOOSE n \in FreeSlots : \A k \in FreeSlots : n <= k,
                          op |-> "register", name |-> name, email |-> email,
                          passwordHash |-> Hash(password)]}
                 /\ UNCHANGED <<users, ous, tokens, now, last>>
            ELSE /\ Commit("register", NoHeader, Missing, r)
                 /\ UNCHANGED <<tokens, now, inflight>>

\* user.save() of a new document: the insert, refused by the unique index
\* when a stored user holds the email.
InsertUser(U, O, t, h) ==
    IF FindUserByEmail(U, h.email) # NoDoc
    THEN ServerError(U, O)
    ELSE LET user == NewUser(Len(U) + 1, h.name, h.email, h.passwordHash, "normal")
         IN  Resp(201, [message |-> "Registered", token |-> jwtSign(user, t),
                        user |-> publicUser(user)],
                  Append(U, user), O)

RegisterSave ==
    \E h \in inflight :
        LET r == InsertUser(users, ous, now, h)
        IN  /\ h.op = "register"
            /\ Len(r.users) <= MaxUsers
            /\ Commit("register", NoHeader, Missing, r)
            /\ tokens' = Keep(r)
            /\ inflight' = inflight \ {h}
            /\ UNCHANGED now

InitRegister ==
    /\ users = << >>
    /\ ous = SeedOUs
    /\ tokens = [i \in 1..MaxUsers |-> NoToken]
    /\ now = 0
    /\ inflight = {}
    /\ last = NoRequest

NextRegister ==
    \/ RegisterCheck
    \/ RegisterSave
    \/ Login
    \/ ListStructure

SpecRegister == InitRegister /\ [][NextRegister]_vars

----------------------------------------------------------------------------
(* The clock: sessions that outlive their tokens. *)

\* Thirty minutes pass.
Tick ==
    /\ now < MaxClock
    /\ now' = now + 1
    /\ UNCHANGED <<users, ous, tokens, inflight, last>>

InitClock ==
    /\ users = <<AdminUser>>
    /\ ous = SeedOUs
    /\ tokens = [i \in 1..MaxUsers |-> NoToken]
    /\ now = 0
    /\ inflight = {}
    /\ last = NoRequest

NextClock ==
    \/ Tick
    \/ Register
    \/ Login
    \/ ListUsers
    \/ ChangeRole

SpecClock == InitClock /\ [][NextClock]_vars

----------------------------------------------------------------------------
(* Role changes while an assign request is suspended.  The assign handler  *)
(* awaits getCurrentUser, checks the role it read, and only then awaits    *)
(* the unit, the target and the save: the check step ends at the first     *)
(* await, the rest runs in the commit step.  Both sessions are logged in.  *)

\* POST /api/users/:id/assign up to the role check: a request that is
\* refused is answered at once.
AssignCheck ==
    \E hdr \in SessionHeaders : \E id \in {Str(i) : i \in DOMAIN users}, b \in ValidAssignBodies :
        LET r == POST_assign(users, ous, now, hdr, id, b.ouId, b.divisionId)
        IN  IF r.status \in {401, 403}
            THEN /\ Commit("assign", hdr, id, r)
                 /\ UNCHANGED <<tokens, now, inflight>>
            ELSE /\ Cardinality(inflight) < MaxInflight
                 /\ inflight' = inflight \cup
                        {[op |-> "assign", uid |-> Actor(hdr), arg |-> id, body |-> b]}
                 /\ UNCHANGED <<users, ous, tokens, now, last>>

\* The handler resumes after its role check and runs to its response.
AssignCommit ==
    \E h \in inflight :
        LET r == assignChecked(users, ous, h.arg, h.body.ouId, h.body.divisionId)
        IN  /\ users' = r.users
            /\ ous' = r.ous
            /\ last' = [op |-> h.op, uid |-> h.uid, arg |-> h.arg, status |-> r.status]
            /\ inflight' = inflight \ {h}
            /\ UNCHANGED <<tokens, now>>

InitDemotion ==
    /\ users = <<AdminUser, [MemberUser(Null, Null) EXCEPT !.role = "management"]>>
    /\ ous = SeedOUs
    /\ tokens = [i \in 1..MaxUsers |-> IF i \in DOMAIN users THEN jwtSign(users[i], 0) ELSE NoToken]
    /\ now = 0
    /\ inflight = {}
    /\ last = NoRequest

NextDemotion ==
    \/ AssignCheck
    \/ AssignCommit
    \/ ChangeRole

SpecDemotion == InitDemotion /\ [][NextDemotion]_vars

----------------------------------------------------------------------------
(* Where roles come from.  The database starts without users or with an    *)
(* admin; users register, log in, are assigned and unassigned, and         *)
(* change-role requests overlap: the handler awaits getCurrentUser, checks  *)
(* the role it read and the requested role, and only then awaits the       *)
(* target and the save.  A change-role request is suspended after its      *)
(* checks while the other requests, change-role included, run to their     *)
(* response.                                                               *)

\* PUT /api/users/:id/role up to its checks: a request that is refused is
\* answered at once, another one is suspended with the role it was checked
\* with.
RoleCheck ==
    \E hdr \in SessionHeaders : \E id \in {Str(i) : i \in DOMAIN users}, role \in RoleInputs :
        LET r == PUT_role(users, ous, now, hdr, id, role)
            current == getCurrentUser(users, ReqUser(authMiddleware(hdr, now)))
        IN  IF r.status \in {400, 401, 403}
            THEN /\ Commit("role", hdr, id, r)
                 /\ UNCHANGED <<tokens, now, inflight>>
            ELSE /\ Cardinality(inflight) < MaxRoleInflight
                 /\ inflight' = inflight \cup
                        {[op |-> "role", uid |-> Actor(hdr), arg |-> id, role |-> role,
                          checked |-> current.role]}
                 /\ UNCHANGED <<users, ous, tokens, now, last>>

\* The handler resumes after its checks and runs to its response.
RoleCommit ==
    \E h \in inflight :
        /\ h.op = "role"
        /\ LET r == roleChecked(users, ous, FindUserById(users, h.uid), h.arg, h.role)
           IN  /\ users' = r.users
               /\ ous' = r.ous
               /\ last' = [op |-> h.op, uid |-> h.uid, arg |-> h.arg, status |-> r.status]
               /\ inflight' = inflight \ {h}
               /\ UNCHANGED <<tokens, now>>

\* POST /api/users/:id/assign by a logged-in user, of an existing user to
\* the first division of the seeded unit.
AssignMember ==
    \E hdr \in SessionHeaders : \E id \in {Str(i) : i \in DOMAIN users} :
        /\ Commit("assign", hdr, id,
                  POST_assign(users, ous, now, hdr, id, Str(SeedOUs[1]._id),
                              Str(SeedOUs[1].divisions[1]._id)))
        /\ UNCHANGED <<tokens, now, inflight>>

InitPromotion ==
    /\ users \in {<<>>, <<AdminUser>>}
    /\ ous = SeedOUs
    /\ tokens = [i \in 1..MaxUsers |-> NoToken]
    /\ now = 0
    /\ inflight = {}
    /\ last = NoRequest

NextPromotion ==
    \/ Register
    \/ Login
    \/ RoleCheck
    \/ RoleCommit
    \/ ChangeRole
    \/ AssignMember
    \/ Unassign

SpecPromotion == InitPromotion /\ [][NextPromotion]_vars

\* The credentials of division d.
CredentialsOf(O, d) == DivisionOf(FindOUByDivision(O, d), Str(d)).credentials

\* The ids of the stored units, and of the divisions a stored unit owns.
StoredOUs == {ous[j]._id : j \in DOMAIN ous}

OwnedDivisions(o) ==
    UNION {{ous[j].divisions[k]._id : k \in DOMAIN ous[j].divisions} : j \in {j \in DOMAIN ous : ous[j]._id = o}}

----------------------------------------------------------------------------
(* Concurrent credential requests.  Add and update load the unit           *)
(* (OU.findOne), change the loaded copy and await ou.save().  The save     *)
(* sends the change made to the copy: a $push of the new credential, or a  *)
(* $set of the fields of the addressed credential that got another value.  *)
(* Mongoose counts the pushes to the arrays of a document in its version   *)
(* key; a save of a copy loaded at another version may be refused with a   *)
(* VersionError, which the catch block answers: both outcomes are          *)
(* modelled.  No credential is ever removed, so the version of a unit is   *)
(* the number of credentials it holds.                                     *)

\* Bodies sent by the overlapping requests: complete, partial and one the
\* add handler refuses.
OverlapCredBodies ==
    {CredBody("x", "x", p) : p \in FieldVals}
    \cup {CredBody(Undefined, Undefined, "y"), CredBody("x", "", "x")}

\* The version key of the unit.
Version(ou) == Cardinality(CredPlaces(<<ou>>))

\* The fields of credential `was` an update with body b gives another value.
ChangedFields(was, b) ==
    [system   |-> IF ~Falsy(b.system) /\ b.system # was.system THEN b.system ELSE Undefined,
     username |-> IF ~Falsy(b.username) /\ b.username # was.username THEN b.username ELSE Undefined,
     password |-> IF ~Falsy(b.password) /\ b.password # was.password THEN b.password ELSE Undefined]

\* POST /api/divisions/:id/credentials up to `await ou.save()`.
AddLoad ==
    \E hdr \in SessionHeaders : \E id \in {Str(d) : d \in OwnedDivisions(11)}, b \in OverlapCredBodies :
        LET r == POST_credentials(users, ous, now, hdr, id, b.system, b.username, b.password)
        IN  IF r.status = 201
            THEN /\ Cardinality(inflight) < MaxInflight
                 /\ inflight' = inflight \cup
                        {[op |-> "add", uid |-> Actor(hdr), arg |-> id, credId |-> Missing,
                          v |-> Version(FindOUByDivision(ous, CastObjectId(id))), body |-> b]}
                 /\ UNCHANGED <<users, ous, tokens, now, last>>
            ELSE /\ Commit("add", hdr, id, r)
                 /\ UNCHANGED <<tokens, now, inflight>>

\* PUT /api/divisions/:id/credentials/:credId up to `await ou.save()`.
UpdateLoad ==
    \E hdr \in SessionHeaders : \E id \in {Str(d) : d \in OwnedDivisions(11)}, credId \in CredIdParams,
                                   b \in OverlapCredBodies :
        LET r == PUT_credentials(users, ous, now, hdr, id, credId, b.system, b.username, b.password)
            ou == FindOUByDivision(ous, CastObjectId(id))
        IN  IF r.status = 200
            THEN /\ Cardinality(inflight) < MaxInflight
                 /\ inflight' = inflight \cup
                        {[op |-> "update", uid |-> Actor(hdr), arg |-> id, credId |-> credId,
                          v |-> Version(ou),
                          body |-> ChangedFields(CredentialOf(DivisionOf(ou, id), credId), b)]}
                 /\ UNCHANGED <<users, ous, tokens, now, last>>
            ELSE /\ Commit("update", hdr, id, r)
                 /\ UNCHANGED <<tokens, now, inflight>>

\* The save is refused: the stored unit is at another version than the copy.
VersionError(h) ==
    /\ Version(FindOUByDivision(ous, CastObjectId(h.arg))) # h.v
    /\ last' = [op |-> h.op, uid |-> h.uid, arg |-> h.arg, status |-> 500]
    /\ inflight' = inflight \ {h}
    /\ UNCHANGED <<users, ous, tokens, now>>

AddSave ==
    \E h \in inflight :
        /\ h.op = "add"
        /\ \/ LET cred == [_id |-> NewCredId(ous), system |-> h.body.system,
                           username |-> h.body.username, password |-> h.body.password]
              IN  /\ Cardinality(CredPlaces(ous)) < MaxCredsConcurrent
                  /\ ous' = PushCredential(ous, CastObjectId(h.arg), cred)
                  /\ last' = [op |-> h.op, uid |-> h.uid, arg |-> h.arg, status |-> 201]
                  /\ inflight' = inflight \ {h}
                  /\ UNCHANGED <<users, tokens, now>>
           \/ VersionError(h)

UpdateSave ==
    \E h \in inflight :
        /\ h.op = "update"
        /\ \/ LET stored == CredentialOf(DivisionOf(FindOUByDivision(ous, CastObjectId(h.arg)), h.arg),
                                         h.credId)
              IN  /\ ous' = ReplaceCredential(ous, CastObjectId(h.arg),
                                    PatchCredential(stored, h.body.system, h.body.username,
                                                    h.body.password))
                  /\ last' = [op |-> h.op, uid |-> h.uid, arg |-> h.arg, status |-> 200]
                  /\ inflight' = inflight \ {h}
                  /\ UNCHANGED <<users, tokens, now>>
           \/ VersionError(h)

InitCredConcurrent ==
    /\ users = <<StaffUser("management")>>
    /\ ous = SeedOUs
    /\ tokens = [i \in 1..MaxUsers |-> IF i \in DOMAIN users THEN jwtSign(users[i], 0) ELSE NoToken]
    /\ now = 0
    /\ inflight = {}
    /\ last = NoRequest

NextCredConcurrent ==
    \/ AddLoad
    \/ AddSave
    \/ UpdateLoad
    \/ UpdateSave

SpecCredConcurrent == InitCredConcurrent /\ [][NextCredConcurrent]_vars

----------------------------------------------------------------------------
(* Properties.  The formulas below quantify over the requests a client    *)
(* could send in the current state and apply the routes to them; `last`   *)
(* shows the request that was in fact answered.                           *)

\* Every token the server has signed for user i and that has not expired:
\* the claims carry the role the user had when it was signed.
ValidTokens(i) == {jwtSign([users[i] EXCEPT !.role = r], now) : r \in Roles}

GuardedOps == {"structure", "read", "add", "update", "users", "assign", "unassign", "role"}

Unchanged(r) == r.users = users /\ r.ous = ous

IsUser(i) == i \in DOMAIN users

\* The user a URL parameter names, 0 when it names none.
Target(arg) == IF IsObjectIdString(arg) /\ IsUser(CastObjectId(arg)) THEN CastObjectId(arg) ELSE 0

Elevated(i) == users[i].role \in {"management", "admin"}

\* C4: a user whose stored role is normal is answered 403 by list-users,
\* assign and unassign, for every target and every body; no user list is
\* returned and no document changes.  A management or admin user is given
\* the list.
NormalCannotManageUsers ==
    \A i \in DOMAIN users : \A tok \in ValidTokens(i) :
        LET hdr == Bearer(tok)
            l == GET_users(users, ous, now, hdr)
        IN  IF users[i].role = "normal"
            THEN /\ l.status = 403 /\ "items" \notin DOMAIN l.body /\ Unchanged(l)
                 /\ \A id \in UserIdParams, b \in AllAssignBodies :
                        LET r == POST_assign(users, ous, now, hdr, id, b.ouId, b.divisionId)
                        IN  r.status = 403 /\ Unchanged(r)
                 /\ \A id \in UserIdParams :
                        LET r == DELETE_assign(users, ous, now, hdr, id)
                        IN  r.status = 403 /\ Unchanged(r)
            ELSE l.status = 200 /\ Len(l.body.items) = Len(users)

\* A normal user asked to assign an existing user and was answered 403.
NormalAssignRefused ==
    /\ last.op = "assign" /\ last.status = 403
    /\ IsUser(last.uid) /\ users[last.uid].role = "normal"
    /\ Target(last.arg) # 0

\* C5: a user whose stored role is normal or management is answered 403 by
\* change-role, for every target and every requested role, and no user
\* document changes.
OnlyAdminChangesRoles ==
    \A i \in DOMAIN users : users[i].role # "admin" =>
        \A tok \in ValidTokens(i), id \in UserIdParams, role \in RoleInputs :
            LET r == PUT_role(users, ous, now, Bearer(tok), id, role)
            IN  r.status = 403 /\ Unchanged(r)

\* A management user asked to change the role of an existing user and was
\* answered 403.
ManagementRoleChangeRefused ==
    /\ last.op = "role" /\ last.status = 403
    /\ IsUser(last.uid) /\ users[last.uid].role = "management"
    /\ Target(last.arg) # 0

\* C6: every request to a protected operation that carries no token signed
\* by the server (no header, another scheme, no token, no JWT, a wrong
\* signature) is answered 401.
RejectedMeans401 ==
    (last.op \in GuardedOps /\ last.uid = 0) => last.status = 401

\* C7: the division a user document refers to is a division of the unit
\* the document refers to, also while assign and unassign requests on the
\* same user overlap.
DivisionBelongsToOU ==
    \A i \in DOMAIN users :
        users[i].division # Null =>
            /\ users[i].ou # Null
            /\ DivisionOf(FindOUById(ous, users[i].ou), Str(users[i].division)) # NoDoc

\* C8: a user document has its unit reference null exactly when its
\* division reference is null.
OuNullIffDivisionNull ==
    \A i \in DOMAIN users : (users[i].ou = Null) <=> (users[i].division = Null)

\* The assign bodies that name a well-formed id of no stored unit, or a
\* stored unit and a division id that is none of its divisions.
BadAssignBodies ==
    {b \in AllAssignBodies :
        /\ IsObjectIdString(b.ouId)
        /\ b.divisionId # Missing
        /\ \/ b.ouId.str \notin StoredOUs
           \/ b.divisionId.str \notin OwnedDivisions(b.ouId.str)}

\* C11: a change-role request of an admin on an existing user, with any of
\* the three roles (the old one included), is answered 200 with
\* requireReLogin true when the target is the admin and false when it is
\* another user.
ReLoginExactlyOnOwnRole ==
    \A i \in DOMAIN users : users[i].role = "admin" =>
        \A tok \in ValidTokens(i), t \in DOMAIN users, role \in Roles :
            LET r == PUT_role(users, ous, now, Bearer(tok), Str(t), role)
            IN  /\ r.status = 200
                /\ r.body.requireReLogin = (t = i)
                /\ r.users = [users EXCEPT ![t].role = role]

\* An admin changed the role of another user, who is now management, and
\* is still admin.
OtherRoleChanged ==
    /\ last.op = "role" /\ last.status = 200
    /\ IsUser(last.uid) /\ users[last.uid].role = "admin"
    /\ Target(last.arg) # 0 /\ Target(last.arg) # last.uid
    /\ users[Target(last.arg)].role = "management"

\* C12: a registration succeeds exactly when the three fields are there and
\* the email is free, whatever role, unit or division the body adds; it
\* appends one user with a fresh id, role normal and no unit or division,
\* and its token verifies and carries that id and the role normal.
RegisterMakesNormalUser ==
    \A b \in AllRegisterBodies :
        LET r == POST_register(users, ous, now, b)
            u == r.users[Len(r.users)]
        IN  /\ (r.status = 201) <=>
                    (~Falsy(b.name) /\ ~Falsy(b.email) /\ ~Falsy(b.password)
                     /\ \A i \in DOMAIN users : users[i].email # b.email)
            /\ r.status = 201 =>
                /\ r.users = Append(users, u) /\ r.ous = ous
                /\ \A i \in DOMAIN users : users[i]._id # u._id
                /\ u.email = b.email /\ u.name = b.name
                /\ u.role = "normal" /\ u.ou = Null /\ u.division = Null
                /\ jwtVerifies(r.body.token, now)
                /\ r.body.token.id = u._id /\ r.body.token.role = "normal"
                /\ r.body.user.id = u._id /\ r.body.user.role = "normal"

\* A registration was answered 201: the second user exists, is normal and
\* unassigned, and the session holds a token with that user's id.
RegisteredSecondUser ==
    /\ last.op = "register" /\ last.status = 201
    /\ Len(users) = 2 /\ users[2].role = "normal" /\ users[2].division = Null
    /\ tokens[2] # NoToken /\ tokens[2].id = users[2]._id

\* C13: a registration whose three fields are there is answered 201 when it
\* creates the user and 409 when a user holds the email, also when it was
\* checked while another registration of the same email was under way.
RegisterRefusedMeansConflict ==
    (last.op = "register" /\ last.status \notin {201, 400}) => last.status = 409

\* The field a credential holds after an update whose body gives `sent`.
Patched(sent, prior) == IF sent # Undefined THEN sent ELSE prior

TokenLivesOneHour ==
    \A i \in DOMAIN tokens : tokens[i] # NoToken =>
        LET tok == tokens[i]
        IN  /\ tok.iat <= now
            /\ tok.exp = tok.iat + ExpiresIn
            /\ authMiddleware(Bearer(tok), now).next <=> (now < tok.iat + ExpiresIn)
            /\ \A t \in 0..(MaxClock + 1) :
                    authMiddleware(Bearer(tok), t).next <=> (t < tok.iat + ExpiresIn)

\* One hour after an admin logged in, the admin's role was changed and the
\* token, sent with list-users, was refused.
ExpiredTokenRefused ==
    /\ last.op = "users" /\ last.status = 403
    /\ IsUser(last.uid) /\ users[last.uid].role = "management"
    /\ tokens[last.uid] # NoToken /\ tokens[last.uid].role = "admin"
    /\ now = tokens[last.uid].iat + ExpiresIn

\* C16: a login that does not succeed (unknown email, wrong password,
\* missing password) is answered 401.
LoginFailureIs401 ==
    (last.op = "login" /\ last.status # 200) => last.status = 401

PublicFields == {"id", "name", "email", "role", "ou", "division"}

\* A response body whose user records have the public fields and no other,
\* and whose token carries the id, the email, the role and the two times.
OnlyPublicProjection(body) ==
    /\ DOMAIN body \subseteq {"message", "error", "token", "user", "items", "requireReLogin"}
    /\ "user" \in DOMAIN body => DOMAIN body.user = PublicFields
    /\ "items" \in DOMAIN body => \A k \in DOMAIN body.items : DOMAIN body.items[k] = PublicFields
    /\ "token" \in DOMAIN body => DOMAIN body.token = {"id", "email", "role", "iat", "exp", "sig"}

\* C17: whatever is sent to register, login, list-users, assign, unassign
\* and change-role, by whichever user, every user record in the response is
\* the public projection: no password and no hash.
NoSecretInResponses ==
    /\ \A n \in Names \cup {Undefined}, e \in {EmailPool[k] : k \in DOMAIN EmailPool} \cup {Undefined},
          pw \in Passwords \cup {"wrong", Undefined} :
            /\ OnlyPublicProjection(postRegister(users, ous, now, n, e, pw).body)
            /\ OnlyPublicProjection(postLogin(users, ous, now, e, pw).body)
    /\ \A i \in DOMAIN users :
        LET hdr == Bearer(jwtSign(users[i], now))
        IN  /\ OnlyPublicProjection(GET_users(users, ous, now, hdr).body)
            /\ \A id \in UserIdParams :
                /\ OnlyPublicProjection(DELETE_assign(users, ous, now, hdr, id).body)
                /\ \A b \in SentAssignBodies :
                        OnlyPublicProjection(POST_assign(users, ous, now, hdr, id, b.ouId, b.divisionId).body)
                /\ \A role \in RoleInputs :
                        OnlyPublicProjection(PUT_role(users, ous, now, hdr, id, role).body)

\* A management or admin user was given the list of two users.
TwoUsersListed ==
    /\ last.op = "users" /\ last.status = 200
    /\ IsUser(last.uid) /\ Elevated(last.uid)
    /\ Len(users) = 2

\* C18: when an assign request is answered 200, and so has written the
\* target's document, the stored role of the user who sent it is not normal.
NoWriteAfterDemotion ==
    (last.op = "assign" /\ last.status = 200 /\ IsUser(last.uid)) =>
        users[last.uid].role # "normal"

\* C19: in every step, each division keeps the credentials it has, with
\* their ids and in their places, and an add that is answered 201 in the
\* step has appended one credential with the system, username and password
\* it was sent to the end of the list of its division, and nothing to the
\* other divisions; also when adds and updates overlap.
AddsAppendAndStay ==
    [][/\ \A d \in OwnedDivisions(11) :
            LET old == CredentialsOf(ous, d)
                new == CredentialsOf(ous', d)
            IN  /\ Len(new) >= Len(old)
                /\ \A k \in DOMAIN old : new[k]._id = old[k]._id
       /\ \A h \in inflight \ inflight' :
            (h.op = "add" /\ last'.status = 201) =>
                \A d \in OwnedDivisions(11) :
                    LET old == CredentialsOf(ous, d)
                        new == CredentialsOf(ous', d)
                    IN  IF Str(d) = h.arg
                        THEN /\ Len(new) = Len(old) + 1
                             /\ SubSeq(new, 1, Len(old)) = old
                             /\ new[Len(new)].system = h.body.system
                             /\ new[Len(new)].username = h.body.username
                             /\ new[Len(new)].password = h.body.password
                             /\ \A k \in DOMAIN old : old[k]._id # new[Len(new)]._id
                        ELSE new = old]_vars

\* An add was answered 201 while an update of the same division, loaded
\* before it, is suspended at its save: the division holds two credentials.
AddOvertookUpdate ==
    /\ last.op = "add" /\ last.status = 201
    /\ Len(CredentialsOf(ous, CastObjectId(last.arg))) = 2
    /\ \E h \in inflight :
            /\ h.op = "update" /\ h.arg = last.arg
            /\ h.v = 1

\* The statuses of a refusal: validation, unauthenticated, forbidden, not
\* found and conflict.
Refusals == {400, 401, 403, 404, 409}

Refused(r) == r.status \in Refusals => Unchanged(r)

\* C20: in every state, a request to any route, with any header and any
\* input, that is answered 400, 401, 403, 404 or 409 leaves the user
\* documents and the unit documents as they are.
RefusalWritesNothing ==
    /\ \A b \in AllRegisterBodies : Refused(POST_register(users, ous, now, b))
    /\ \A e \in Emails \cup {Undefined}, pw \in Passwords \cup {"wrong", Undefined} :
            Refused(postLogin(users, ous, now, e, pw))
    /\ \A hdr \in Headers \cup {Bearer(jwtSign(users[i], now)) : i \in DOMAIN users} :
        /\ Refused(GET_structure(users, ous, now, hdr))
        /\ Refused(GET_users(users, ous, now, hdr))
        /\ \A id \in DivisionIdParams :
            /\ Refused(GET_credentials(users, ous, now, hdr, id))
            /\ \A b \in SentCredBodies :
                /\ Refused(POST_credentials(users, ous, now, hdr, id, b.system, b.username, b.password))
                /\ \A credId \in CredIdParams :
                        Refused(PUT_credentials(users, ous, now, hdr, id, credId,
                                                b.system, b.username, b.password))
        /\ \A id \in UserIdParams :
            /\ Refused(DELETE_assign(users, ous, now, hdr, id))
            /\ \A b \in SentAssignBodies :
                    Refused(POST_assign(users, ous, now, hdr, id, b.ouId, b.divisionId))
            /\ \A role \in RoleInputs : Refused(PUT_role(users, ous, now, hdr, id, role))

\* A management or admin user sent an add with a field missing and was
\* answered 400.
AddRefusedForMissingField ==
    /\ last.op = "add" /\ last.status = 400
    /\ IsUser(last.uid) /\ Elevated(last.uid)

\* C21: every stored role is normal, management or admin, and a
\* change-role request of an admin whose role value is none of the three,
\* or is missing, is answered 400 for every target and changes no document.
RoleStaysInEnum ==
    /\ \A i \in DOMAIN users : users[i].role \in Roles
    /\ \A i \in DOMAIN users : users[i].role = "admin" =>
            \A tok \in ValidTokens(i), id \in UserIdParams, role \in RoleInputs \ Roles :
                LET r == PUT_role(users, ous, now, Bearer(tok), id, role)
                IN  r.status = 400 /\ Unchanged(r)

\* An admin asked for a role that is none of the three, on an existing
\* user, and was answered 400.
InvalidRoleRefused ==
    /\ last.op = "role" /\ last.status = 400
    /\ IsUser(last.uid) /\ users[last.uid].role = "admin"
    /\ Target(last.arg) # 0

\* C22: a user whose stored role is management or admin, with or without
\* a division of their own, reads every stored division (200, its list) and
\* adds to it with the three fields supplied (201, one credential appended
\* there, nothing else changed); on a division id that no unit owns both
\* are answered 404 and change nothing.
StaffReachEveryDivision ==
    \A i \in DOMAIN users : Elevated(i) =>
        \A tok \in ValidTokens(i), d \in DivisionIds :
            LET rd == GET_credentials(users, ous, now, Bearer(tok), Str(d))
                stored == \E o \in StoredOUs : d \in OwnedDivisions(o)
            IN  /\ Unchanged(rd)
                /\ rd.status = (IF stored THEN 200 ELSE 404)
                /\ stored => rd.body.credentials = CredentialsOf(ous, d)
                /\ \A s \in FieldVals, u \in FieldVals, p \in FieldVals :
                    LET ad == POST_credentials(users, ous, now, Bearer(tok), Str(d), s, u, p)
                    IN  IF stored
                        THEN LET before == CredentialsOf(ous, d)
                                 after == CredentialsOf(ad.ous, d)
                             IN  /\ ad.status = 201 /\ ad.users = users
                                 /\ Len(after) = Len(before) + 1
                                 /\ SubSeq(after, 1, Len(before)) = before
                                 /\ after[Len(after)].system = s
                                 /\ after[Len(after)].username = u
                                 /\ after[Len(after)].password = p
                                 /\ \A e \in OwnedDivisions(11) \ {d} :
                                        CredentialsOf(ad.ous, e) = CredentialsOf(ous, e)
                        ELSE ad.status = 404 /\ Unchanged(ad)

\* A management or admin user assigned to one division added a credential
\* to another division and was answered 201.
StaffAddedElsewhere ==
    /\ last.op = "add" /\ last.status = 201
    /\ IsUser(last.uid) /\ Elevated(last.uid)
    /\ users[last.uid].division # Null
    /\ last.arg # Str(users[last.uid].division)
    /\ Len(CredentialsOf(ous, CastObjectId(last.arg))) = 1

\* The sessions whose unexpired token carries another role than the one
\* stored for its user: the role was changed after the token was issued.
StaleSessions ==
    {i \in DOMAIN users : /\ tokens[i] # NoToken
                          /\ jwtVerifies(tokens[i], now)
                          /\ tokens[i].role # users[i].role}

\* C23 as stated: while a user has not logged in again after a change of
\* their role, requests with the token issued before the change are
\* answered as the role in that token is answered, not as the new role is.
StaleTokenKeepsOldRole ==
    \A i \in StaleSessions :
        LET hdr == Bearer(tokens[i])
            before == [users EXCEPT ![i].role = tokens[i].role]
        IN  /\ GET_users(users, ous, now, hdr).status = GET_users(before, ous, now, hdr).status
            /\ \A id \in UserIdParams, role \in RoleInputs :
                    PUT_role(users, ous, now, hdr, id, role).status
                        = PUT_role(before, ous, now, hdr, id, role).status

\* C23: a changed role takes effect at once.  A request with an unexpired
\* token issued before the change is answered as the stored role is
\* answered: list-users 403 exactly for a stored normal, change-role 403
\* exactly for a stored role other than admin, and both as a token from a
\* fresh login would be answered.  Only the role written in the token stays
\* the old one until the user logs in again.
NewRoleEffectiveAtOnce ==
    \A i \in StaleSessions :
        LET hdr == Bearer(tokens[i])
            fresh == Bearer(jwtSign(users[i], now))
        IN  /\ GET_users(users, ous, now, hdr) = GET_users(users, ous, now, fresh)
            /\ GET_users(users, ous, now, hdr).status = (IF users[i].role = "normal" THEN 403 ELSE 200)
            /\ \A id \in UserIdParams, role \in RoleInputs :
                LET r == PUT_role(users, ous, now, hdr, id, role)
                IN  /\ r = PUT_role(users, ous, now, fresh, id, role)
                    /\ (r.status = 403) <=> (users[i].role # "admin")

\* A user who logged in as normal and was made management afterwards
\* listed the users with the token of that login and was answered 200.
PromotedWithoutReLogin ==
    /\ last.op = "users" /\ last.status = 200
    /\ last.uid \in StaleSessions
    /\ tokens[last.uid].role = "normal" /\ users[last.uid].role = "management"

\* No user is admin and no change-role request is past its checks.
NoAdminAtWork ==
    /\ \A i \in DOMAIN users : users[i].role # "admin"
    /\ \A h \in inflight : h.op # "role"

\* C24: in every step, (1) a user's stored role changes only when a
\* change-role request on that user is answered 200 whose acting user was
\* read as admin at its check, in an earlier step or in this one; (2) a user the step creates is normal; (3)
\* when no user is admin and no change-role request is past its checks,
\* the same holds after the step, so that from such a state on no role
\* ever changes and nobody becomes management or admin, whatever is
\* registered, logged in, assigned, unassigned or asked of change-role.
RolesComeFromAdmins ==
    [][/\ \A i \in DOMAIN users :
            users'[i].role # users[i].role =>
                /\ last'.op = "role" /\ last'.status = 200
                /\ last'.arg = Str(users[i]._id)
                /\ IF inflight' = inflight
                   THEN IsUser(last'.uid) /\ users[last'.uid].role = "admin"
                   ELSE \E h \in inflight \ inflight' :
                            h.op = "role" /\ h.checked = "admin" /\ h.arg = last'.arg
       /\ \A i \in DOMAIN users' \ DOMAIN users : users'[i].role = "normal"
       /\ NoAdminAtWork => /\ NoAdminAtWork'
                            /\ \A i \in DOMAIN users : users'[i].role = users[i].role]_vars

\* Two users registered into a database without users, both are logged
\* in and the second asked for the admin role and was answered 403: both
\* are normal.
NobodyToPromote ==
    /\ last.op = "role" /\ last.status = 403
    /\ Len(users) = 2 /\ \A i \in DOMAIN users : users[i].role = "normal"
    /\ \A i \in DOMAIN users : tokens[i] # NoToken

\* C25: for a normal user A who holds an unexpired token, and a management
\* or admin user: right after an assign of A to a division D of the seeded
\* unit, the token A already holds reads D with 200 and is answered 403 by
\* read and add on every other division, the one A had before included;
\* right after an unassign of A, it is answered 403 by read and add on
\* every division.
TokenFollowsAssignment ==
    \A a \in DOMAIN users :
        (users[a].role = "normal" /\ tokens[a] # NoToken /\ jwtVerifies(tokens[a], now)) =>
            \A m \in DOMAIN users : Elevated(m) =>
                LET hm == Bearer(jwtSign(users[m], now))
                    ha == Bearer(tokens[a])
                    divisions == {Str(d) : d \in DivisionIds}
                IN  /\ \A b \in ValidAssignBodies :
                        LET r == POST_assign(users, ous, now, hm, Str(a), b.ouId, b.divisionId)
                        IN  /\ r.status = 200
                            /\ GET_credentials(r.users, r.ous, now, ha, b.divisionId).status = 200
                            /\ \A d \in divisions \ {b.divisionId} :
                                /\ GET_credentials(r.users, r.ous, now, ha, d).status = 403
                                /\ POST_credentials(r.users, r.ous, now, ha, d, "x", "x", "x").status = 403
                    /\ LET r == DELETE_assign(users, ous, now, hm, Str(a))
                       IN  /\ r.status = 200
                           /\ \A d \in divisions :
                                /\ GET_credentials(r.users, r.ous, now, ha, d).status = 403
                                /\ POST_credentials(r.users, r.ous, now, ha, d, "x", "x", "x").status = 403

\* A user who registered, and so holds a token from before any assignment,
\* was assigned to a division and read it with 200.
AssignedReadsOwnDivision ==
    /\ last.op = "read" /\ last.status = 200
    /\ IsUser(last.uid) /\ users[last.uid].role = "normal"
    /\ users[last.uid].division # Null /\ last.arg = Str(users[last.uid].division)
    /\ tokens[last.uid] # NoToken /\ tokens[last.uid].role = "normal"

\* C9: an assign request of a management or admin user that names an
\* existing unit and a division id that is not one of its divisions is
\* answered 400, one that names a well-formed id of no unit is answered 404;
\* whoever sends such a body, the request does not succeed and no user
\* document changes.
BadAssignLeavesAssignment ==
    \A b \in BadAssignBodies, id \in UserIdParams :
        /\ \A i \in DOMAIN users : \A tok \in ValidTokens(i) :
            LET r == POST_assign(users, ous, now, Bearer(tok), id, b.ouId, b.divisionId)
            IN  /\ Unchanged(r)
                /\ r.status # 200
                /\ Elevated(i) =>
                    r.status = (IF b.ouId.str \in StoredOUs THEN 400 ELSE 404)
        /\ \A hdr \in OtherHeaders :
            LET r == POST_assign(users, ous, now, hdr, id, b.ouId, b.divisionId)
            IN  Unchanged(r) /\ r.status # 200

\* An assigned user was the target of an assign request of a management or
\* admin user that was answered 400, and is still assigned.
BadAssignRefused ==
    /\ last.op = "assign" /\ last.status = 400
    /\ IsUser(last.uid) /\ Elevated(last.uid)
    /\ Target(last.arg) # 0 /\ users[Target(last.arg)].division # Null

\* C10: unassign by a management or admin user on an existing user succeeds
\* whatever the assignment; it clears ou and division of the target and
\* nothing else; a second unassign right after succeeds and changes nothing.
UnassignIdempotent ==
    \A i \in DOMAIN users : Elevated(i) =>
        \A tok \in ValidTokens(i), t \in DOMAIN users :
            LET r1 == DELETE_assign(users, ous, now, Bearer(tok), Str(t))
                r2 == DELETE_assign(r1.users, r1.ous, now, Bearer(tok), Str(t))
            IN  /\ r1.status = 200
                /\ r1.users = [users EXCEPT ![t].ou = Null, ![t].division = Null]
                /\ r1.ous = ous
                /\ r1.body.user = publicUser(r1.users[t])
                /\ r2.status = 200
                /\ r2.users = r1.users /\ r2.ous = r1.ous
                /\ r2.body.user = r1.body.user

\* An unassign was answered 200, its target holds no assignment, and a
\* user who had been assigned before it exists (the target or another).
UnassignDone ==
    /\ last.op = "unassign" /\ last.status = 200
    /\ Target(last.arg) # 0
    /\ users[Target(last.arg)].ou = Null /\ users[Target(last.arg)].division = Null
    /\ Len(users) = 2 /\ \E j \in DOMAIN users : j # Target(last.arg) /\ users[j].division # Null

\* C1: two unexpired tokens of the same user that carry different roles get
\* the same response and leave the same collections, whatever guarded
\* operation they are sent with: the response is the one for the token that
\* carries the stored role.
TokenRoleIgnored ==
    \A i \in DOMAIN users :
        LET h0 == Bearer(jwtSign(users[i], now))
            others == {Bearer(tok) : tok \in ValidTokens(i)} \ {h0}
        IN  /\ LET r0 == GET_users(users, ous, now, h0)
               IN  \A h \in others : GET_users(users, ous, now, h) = r0
            /\ \A id \in DivisionIdParams :
                /\ LET r0 == GET_credentials(users, ous, now, h0, id)
                   IN  \A h \in others : GET_credentials(users, ous, now, h, id) = r0
                /\ \A b \in SentCredBodies :
                    /\ LET r0 == POST_credentials(users, ous, now, h0, id, b.system, b.username, b.password)
                       IN  \A h \in others :
                            POST_credentials(users, ous, now, h, id, b.system, b.username, b.password) = r0
                    /\ \A credId \in CredIdParams :
                        LET r0 == PUT_credentials(users, ous, now, h0, id, credId, b.system, b.username, b.password)
                        IN  \A h \in others :
                            PUT_credentials(users, ous, now, h, id, credId, b.system, b.username, b.password) = r0
            /\ \A id \in UserIdParams :
                /\ LET r0 == DELETE_assign(users, ous, now, h0, id)
                   IN  \A h \in others : DELETE_assign(users, ous, now, h, id) = r0
                /\ \A b \in SentAssignBodies :
                    LET r0 == POST_assign(users, ous, now, h0, id, b.ouId, b.divisionId)
                    IN  \A h \in others : POST_assign(users, ous, now, h, id, b.ouId, b.divisionId) = r0
                /\ \A role \in RoleInputs :
                    LET r0 == PUT_role(users, ous, now, h0, id, role)
                    IN  \A h \in others : PUT_role(users, ous, now, h, id, role) = r0

\* A user whose token says admin and whose stored role is normal asked to
\* change the role of an existing user and was answered 403.
StaleAdminTokenRefused ==
    /\ last.op = "role" /\ last.status = 403
    /\ IsUser(last.uid)
    /\ tokens[last.uid] # NoToken /\ tokens[last.uid].role = "admin"
    /\ users[last.uid].role = "normal"
    /\ Target(last.arg) # 0

\* C2: a user whose stored role is normal reads and adds credentials (with
\* the three fields supplied) in the division the user document refers to:
\* the read returns its list, the add appends one credential to it; on any
\* other division id, and on every id when the user has no division, both
\* are answered 403 and change nothing.
NormalOwnDivisionOnly ==
    \A i \in DOMAIN users : users[i].role = "normal" =>
        \A tok \in ValidTokens(i), id \in DivisionIdParams :
            LET own == users[i].division # Null /\ id = Str(users[i].division)
                rd == GET_credentials(users, ous, now, Bearer(tok), id)
            IN  /\ Unchanged(rd)
                /\ rd.status = (IF own THEN 200 ELSE 403)
                /\ own => rd.body.credentials = CredentialsOf(ous, users[i].division)
                /\ \A s \in FieldVals, u \in FieldVals, p \in FieldVals :
                    LET ad == POST_credentials(users, ous, now, Bearer(tok), id, s, u, p)
                    IN  IF own
                        THEN LET before == CredentialsOf(ous, users[i].division)
                                 after == CredentialsOf(ad.ous, users[i].division)
                             IN  /\ ad.status = 201 /\ ad.users = users
                                 /\ Len(after) = Len(before) + 1
                                 /\ SubSeq(after, 1, Len(before)) = before
                                 /\ after[Len(after)].system = s
                                 /\ after[Len(after)].username = u
                                 /\ after[Len(after)].password = p
                                 /\ \A d \in {21, 22} \ {users[i].division} :
                                        CredentialsOf(ad.ous, d) = CredentialsOf(ous, d)
                        ELSE ad.status = 403 /\ Unchanged(ad)

\* A normal user with a division asked to add a credential to another
\* division and was answered 403, after a credential was added to the
\* user's own division.
NormalAddRefused ==
    /\ last.op = "add" /\ last.status = 403
    /\ IsUser(last.uid) /\ users[last.uid].role = "normal"
    /\ users[last.uid].division # Null
    /\ last.arg # Str(users[last.uid].division)
    /\ CredentialsOf(ous, users[last.uid].division) # << >>

\* C3: a user whose stored role is normal is answered 403 by
\* update-credential for every division id, credential id and body, and no
\* document changes.
NormalCannotUpdate ==
    \A i \in DOMAIN users : users[i].role = "normal" =>
        \A tok \in ValidTokens(i), id \in DivisionIdParams, credId \in CredIdParams,
           b \in AllCredBodies :
            LET r == PUT_credentials(users, ous, now, Bearer(tok), id, credId,
                                     b.system, b.username, b.password)
            IN  r.status = 403 /\ Unchanged(r)

\* A normal user asked to update a credential of the user's own division,
\* which holds one, and was answered 403.
NormalUpdateRefused ==
    /\ last.op = "update" /\ last.status = 403
    /\ IsUser(last.uid) /\ users[last.uid].role = "normal"
    /\ users[last.uid].division # Null
    /\ last.arg = Str(users[last.uid].division)
    /\ CredentialsOf(ous, users[last.uid].division) # << >>

====
